---- MODULE Spec2Model ----
(***************************************************************************)
(* TIPS-Compass: the risk evaluation engine of functions/src/index.ts and  *)
(* the onCheckInWrite trigger that keeps riskStates/{patientId} up to date.*)
(*                                                                         *)
(* JavaScript values are modelled as tagged records [t, v] so that typeof, *)
(* truthiness (!!x) and nullish coalescing (??) are computed as the code   *)
(* computes them.  Weights are decimals held in tenths of a kilogram       *)
(* (Num(775) is 77.5 kg), each standing for the IEEE-754 double nearest to *)
(* it; bowel movement counts are plain integers.                           *)
(* A date string YYYY-MM-DD is a member of Dates; Firestore orders such    *)
(* strings lexicographically, which is their position in Dates.            *)
(***************************************************************************)
EXTENDS Integers, Sequences, FiniteSets, TLC

VARIABLES
    checkins,     \* collection "checkins": doc id -> document (NoDoc when absent)
    riskStates,   \* collection "riskStates": patient id -> document (NoDoc when absent)
    inv,          \* invocations of onCheckInWrite, in order of delivery
    clock,        \* server time, source of FieldValue.serverTimestamp()
    version,      \* number of mutations the checkins collection has seen
    writeLog,     \* per patient, the riskStates writes in the order the store applied them
    evalCheckIn,  \* argument checkIn of a direct call of evaluateRisk
    evalHistory,  \* argument weightHistory of a direct call of evaluateRisk
    evalResult,   \* its result (NoResult before the call)
    dash          \* the Dashboard component: its state, its refs and the toasts it has shown

vars == <<checkins, riskStates, inv, clock, version, writeLog,
          evalCheckIn, evalHistory, evalResult, dash>>

-----------------------------------------------------------------------------
(* JavaScript values *)

Undefined == [t |-> "undefined"]
Null == [t |-> "null"]
Bool(b) == [t |-> "boolean", v |-> b]
Num(n) == [t |-> "number", v |-> n]
Str(s) == [t |-> "string", v |-> s]
Obj(o) == [t |-> "object", v |-> o]

TypeOf(x) == IF x.t = "null" THEN "object" ELSE x.t

Truthy(x) ==
    CASE x.t = "boolean" -> x.v
      [] x.t = "number" -> x.v # 0
      [] x.t = "string" -> x.v # ""
      [] x.t = "object" -> TRUE
      [] OTHER -> FALSE

Nullish(x) == x.t \in {"undefined", "null"}

Coalesce(a, b) == IF Nullish(a) THEN b ELSE a

\* o?.f on a value that is an object or nullish
OptField(o, f) == IF Nullish(o) THEN Undefined ELSE o.v[f]

Dates == <<"2026-01-01", "2026-01-02", "2026-01-03", "2026-01-04", "2026-01-05">>

DateRank(s) == CHOOSE i \in 1..Len(Dates) : Dates[i] = s

\* a <= b on two date strings
DateLeq(a, b) == DateRank(a) <= DateRank(b)

-----------------------------------------------------------------------------
(* Risk evaluator *)

RiskLevels == {"green", "yellow", "red"}

rank == [green |-> 0, yellow |-> 1, red |-> 2]

maxRisk_keepsLatest(a, b) == b

maxRisk(a, b) == IF rank[b] > rank[a] THEN b ELSE a

\* delta.toFixed(1) for a delta held in tenths
toFixed1(d) ==
    IF d >= 0
    THEN ToString(d \div 10) \o "." \o ToString(d % 10)
    ELSE "-" \o ToString((0 - d) \div 10) \o "." \o ToString((0 - d) % 10)

\* The double nearest to a/10 kg lies in [2^e, 2^(e+1)): its exponent e
RECURSIVE Binade(_)
Binade(a) == IF a < 20 THEN 0 ELSE 1 + Binade(a \div 2)

RECURSIVE Pow2(_)
Pow2(e) == IF e = 0 THEN 1 ELSE 2 * Pow2(e - 1)

\* 2^k mod 10 for k >= 1
Pow2Mod10(k) == <<2, 4, 8, 6>>[((k - 1) % 4) + 1]

\* (double nearest to a/10) - a/10, in units of 2^-52 / 10: a/10 is a whole
\* number of half-ulps plus r/10 of one ulp 2^(e-52), rounded to the nearest
RoundingError(a) ==
    LET e == Binade(a)
        r == ((a % 10) * Pow2Mod10(52 - e)) % 10
    IN  (IF r < 5 THEN 0 - r ELSE 10 - r) * Pow2(e)

\* lines 89-90: newest.weightKg - oldest.weightKg >= 2.0 on doubles.  For
\* weights of at least 2 kg the subtraction itself is exact, so the sign of
\* delta - 2.0 is that of the decimal difference and, when that is exactly
\* 2.0, of the difference of the two rounding errors.
deltaAtLeast2(a, b) ==
    IF a - b # 20 THEN a - b > 20 ELSE RoundingError(a) >= RoundingError(b)

\* line 80
neuroFlag(checkIn) ==
    Truthy(checkIn.confusion) \/ Truthy(checkIn.sleepReversal) \/ Truthy(checkIn.tremor)

possibleHE_inclusive(checkIn) == neuroFlag(checkIn) /\ checkIn.bowelMovements.v <= 2

possibleHE_unlessSevere(checkIn) ==
    /\ neuroFlag(checkIn) /\ checkIn.bowelMovements.v < 2
    /\ ~(Truthy(checkIn.confusion) /\ checkIn.bowelMovements = Num(0))

possibleHE_unlessLactulose(checkIn) ==
    /\ neuroFlag(checkIn) /\ checkIn.bowelMovements.v < 2
    /\ ~Truthy(checkIn.medsTaken.v.lactulose)

\* line 81
possibleHE(checkIn) == neuroFlag(checkIn) /\ checkIn.bowelMovements.v < 2

oldestIndex_second(weightHistory) == 2

\* line 88: the index of oldest, weightHistory[weightHistory.length - 1]
oldestIndex(weightHistory) == Len(weightHistory)

\* line 89: delta, in tenths of a kilogram
weightDelta(weightHistory) ==
    weightHistory[1].weightKg.v - weightHistory[oldestIndex(weightHistory)].weightKg.v

overloadFires_zeroBaseline(weightHistory) ==
    /\ Len(weightHistory) >= 1
    /\ deltaAtLeast2(weightHistory[1].weightKg.v,
                     IF Len(weightHistory) >= 2
                     THEN weightHistory[Len(weightHistory)].weightKg.v
                     ELSE 0)

\* lines 86-90: the two nested conditions of the weight rule
overloadFires(weightHistory) ==
    /\ Len(weightHistory) >= 2
    /\ deltaAtLeast2(weightHistory[1].weightKg.v,
                     weightHistory[oldestIndex(weightHistory)].weightKg.v)

\* lines 62-94: the five rules, each merging its level and pushing its reason
applyRules(checkIn, weightHistory) ==
    LET bleeding == Truthy(checkIn.bleeding)
        l1 == IF bleeding THEN maxRisk("green", "red") ELSE "green"
        r1 == IF bleeding THEN <<"Bleeding symptoms reported">> ELSE <<>>
        fever == Truthy(checkIn.fever)
        l2 == IF fever THEN maxRisk(l1, "red") ELSE l1
        r2 == IF fever THEN Append(r1, "Fever reported") ELSE r1
        severe == Truthy(checkIn.confusion) /\ checkIn.bowelMovements = Num(0)
        l3 == IF severe THEN maxRisk(l2, "red") ELSE l2
        r3 == IF severe
              THEN Append(r2, "Severe HE concern: confusion + 0 bowel movements")
              ELSE r2
        possible == possibleHE(checkIn)
        l4 == IF possible THEN maxRisk(l3, "yellow") ELSE l3
        r4 == IF possible THEN Append(r3, "Possible hepatic encephalopathy") ELSE r3
        overload == overloadFires(weightHistory)
        delta == IF Len(weightHistory) >= 2 THEN weightDelta(weightHistory) ELSE 0
        l5 == IF overload THEN maxRisk(l4, "yellow") ELSE l4
        r5 == IF overload
              THEN Append(r4, "Possible volume overload: +" \o toFixed1(delta) \o " kg")
              ELSE r4
    IN  [level |-> l5, reasons |-> r5]

evaluateRisk_noSentinel(checkIn, weightHistory) == applyRules(checkIn, weightHistory)

evaluateRisk_alwaysSentinel(checkIn, weightHistory) ==
    LET res == applyRules(checkIn, weightHistory)
    IN  [level |-> res.level,
         reasons |-> Append(res.reasons, "No concerning signals detected")]

evaluateRisk_reversed(checkIn, weightHistory) ==
    LET res == applyRules(checkIn, weightHistory)
        n == Len(res.reasons)
    IN  IF n = 0
        THEN [level |-> res.level, reasons |-> <<"No concerning signals detected">>]
        ELSE [level |-> res.level, reasons |-> [k \in 1..n |-> res.reasons[n + 1 - k]]]

evaluateRisk_trendReturnsEarly(checkIn, weightHistory) ==
    LET res == applyRules(checkIn, weightHistory)
    IN  IF overloadFires(weightHistory)
        THEN [level |-> "yellow", reasons |-> <<res.reasons[Len(res.reasons)]>>]
        ELSE IF Len(res.reasons) = 0
             THEN [level |-> res.level, reasons |-> <<"No concerning signals detected">>]
             ELSE res

\* lines 45-101
evaluateRisk(checkIn, weightHistory) ==
    LET res == applyRules(checkIn, weightHistory)
    IN  IF Len(res.reasons) = 0
        THEN [level |-> res.level, reasons |-> <<"No concerning signals detected">>]
        ELSE res

-----------------------------------------------------------------------------
(* Stores *)

Patients == {"p1", "p2"}

\* ids of the documents of checkins; no run of the model writes more of them
\* than it has invocations
DocIds == {1, 2}

NoDoc == [f \in {} |-> 0]

\* limit(4) of the history query
HistoryLimit == 4

\* DocumentReference.set(data, {merge: true}): fields of data replace or are
\* added to the stored document, every other stored field stays
SetMerge_replaces(old, data) == data

SetMerge_keepsExisting(old, data) ==
    [f \in DOMAIN old \cup DOMAIN data |-> IF f \in DOMAIN old THEN old[f] ELSE data[f]]

SetMerge_keepsHigherLevel(old, data) ==
    [f \in DOMAIN old \cup DOMAIN data |->
        IF f = "level" /\ f \in DOMAIN old /\ f \in DOMAIN data
        THEN (IF rank[old[f]] > rank[data[f]] THEN old[f] ELSE data[f])
        ELSE IF f \in DOMAIN data THEN data[f] ELSE old[f]]

SetMerge_appendsReasons(old, data) ==
    [f \in DOMAIN old \cup DOMAIN data |->
        IF f = "reasons" /\ f \in DOMAIN old /\ f \in DOMAIN data
        THEN old[f] \o data[f]
        ELSE IF f \in DOMAIN data THEN data[f] ELSE old[f]]

SetMerge(old, data) ==
    [f \in DOMAIN old \cup DOMAIN data |-> IF f \in DOMAIN data THEN data[f] ELSE old[f]]

Matching_anyPatient(docs, patientId, upToDate) ==
    {id \in DOMAIN docs :
        /\ docs[id] # NoDoc
        /\ docs[id].date.t = "string"
        /\ DateLeq(docs[id].date.v, upToDate.v)}

\* The documents the query selects: where patientId == p, where date <= upTo
Matching(docs, patientId, upToDate) ==
    {id \in DOMAIN docs :
        /\ docs[id] # NoDoc
        /\ docs[id].patientId = patientId
        /\ docs[id].date.t = "string"
        /\ DateLeq(docs[id].date.v, upToDate.v)}

\* orderBy("date", "desc"); documents of equal date follow in descending id
Newest(docs, ids) ==
    CHOOSE id \in ids : \A o \in ids :
        \/ DateRank(docs[id].date.v) > DateRank(docs[o].date.v)
        \/ DateRank(docs[id].date.v) = DateRank(docs[o].date.v) /\ id >= o

RECURSIVE OrderByDateDesc(_, _)
OrderByDateDesc(docs, ids) ==
    IF ids = {} THEN <<>>
    ELSE LET n == Newest(docs, ids)
         IN  <<n>> \o OrderByDateDesc(docs, ids \ {n})

Limit_none(s, k) == s

\* limit(k): the first k documents of the ordered selection
Limit(s, k) == SubSeq(s, 1, IF Len(s) < k THEN Len(s) ELSE k)

IsNumber(x) == TypeOf(x) = "number"

\* lines 29-43
getRecentWeights(docs, patientId, upToDate) ==
    LET snap == Limit(OrderByDateDesc(docs, Matching(docs, patientId, upToDate)),
                      HistoryLimit)
        data == [i \in 1..Len(snap) |-> docs[snap[i]]]
        kept == SelectSeq(data, LAMBDA x : IsNumber(x.weightKg))
    IN  [i \in 1..Len(kept) |-> [date |-> kept[i].date, weightKg |-> kept[i].weightKg]]

-----------------------------------------------------------------------------
(* onCheckInWrite *)

\* lines 108-114: raw.patientId ?? raw.patientID
resolvePatientId(raw) == Coalesce(raw.patientId, raw.patientID)

isSkipped_ignoresDate(raw) == ~Truthy(resolvePatientId(raw))

\* line 114
isSkipped(raw) == ~Truthy(resolvePatientId(raw)) \/ ~Truthy(raw.date)

normalize_negatesConfusion(raw) ==
    [date |-> raw.date,
     confusion |-> Bool(~Truthy(raw.confusion)),
     sleepReversal |-> Bool(Truthy(raw.sleepReversal)),
     tremor |-> Bool(Truthy(raw.tremor)),
     bowelMovements |-> IF IsNumber(raw.bowelMovements) THEN raw.bowelMovements ELSE Num(0),
     weightKg |-> IF IsNumber(raw.weightKg) THEN raw.weightKg ELSE Null,
     bleeding |-> Bool(Truthy(raw.bleeding)),
     fever |-> Bool(Truthy(raw.fever)),
     medsTaken |-> Obj([lactulose |-> Bool(Truthy(OptField(raw.medsTaken, "lactulose"))),
                        rifaximin |-> Bool(Truthy(OptField(raw.medsTaken, "rifaximin"))),
                        diuretics |-> Bool(Truthy(OptField(raw.medsTaken, "diuretics")))])]

normalize_keepsFlags(raw) ==
    [date |-> raw.date,
     confusion |-> raw.confusion,
     sleepReversal |-> raw.sleepReversal,
     tremor |-> raw.tremor,
     bowelMovements |-> IF IsNumber(raw.bowelMovements) THEN raw.bowelMovements ELSE Num(0),
     weightKg |-> IF IsNumber(raw.weightKg) THEN raw.weightKg ELSE Null,
     bleeding |-> raw.bleeding,
     fever |-> raw.fever,
     medsTaken |-> Obj([lactulose |-> Bool(Truthy(OptField(raw.medsTaken, "lactulose"))),
                        rifaximin |-> Bool(Truthy(OptField(raw.medsTaken, "rifaximin"))),
                        diuretics |-> Bool(Truthy(OptField(raw.medsTaken, "diuretics")))])]

\* lines 117-132
normalize(raw) ==
    [date |-> raw.date,
     confusion |-> Bool(Truthy(raw.confusion)),
     sleepReversal |-> Bool(Truthy(raw.sleepReversal)),
     tremor |-> Bool(Truthy(raw.tremor)),
     bowelMovements |-> IF IsNumber(raw.bowelMovements) THEN raw.bowelMovements ELSE Num(0),
     weightKg |-> IF IsNumber(raw.weightKg) THEN raw.weightKg ELSE Null,
     bleeding |-> Bool(Truthy(raw.bleeding)),
     fever |-> Bool(Truthy(raw.fever)),
     medsTaken |-> Obj([lactulose |-> Bool(Truthy(OptField(raw.medsTaken, "lactulose"))),
                        rifaximin |-> Bool(Truthy(OptField(raw.medsTaken, "rifaximin"))),
                        diuretics |-> Bool(Truthy(OptField(raw.medsTaken, "diuretics")))])]

\* a document with no field set: change.after.data() || {}
EmptyRaw ==
    [patientId |-> Undefined, patientID |-> Undefined, date |-> Undefined,
     confusion |-> Undefined, sleepReversal |-> Undefined, tremor |-> Undefined,
     bowelMovements |-> Undefined, weightKg |-> Undefined, bleeding |-> Undefined,
     fever |-> Undefined, medsTaken |-> Undefined]

NoResult == [level |-> "none", reasons |-> <<>>]

\* a delivery of the write event number ev: the snapshot change.after and the
\* handler's locals before its first statement
NewInvocation(ev, doc, exists, data) ==
    [event |-> ev, doc |-> doc, exists |-> exists, data |-> data,
     pc |-> "start", patientId |-> Undefined, date |-> Undefined,
     checkIn |-> Undefined, weightHistory |-> <<>>,
     level |-> "none", reasons |-> <<>>,
     steps |-> <<>>, issueSeq |-> 0, readVersion |-> 0, readClock |-> 0,
     doneVersion |-> 0, readError |-> FALSE, writeError |-> FALSE]

-----------------------------------------------------------------------------
(* Dashboard: the alert feed and its toasts *)

\* insights.ts lines 29-33 and part_002 lines 20-22
levelRank(l) == CASE l = "red" -> 0 [] l = "yellow" -> 1 [] OTHER -> 2

\* the comparator of both sorts: a before b when its level ranks first, or at
\* equal level when its lastCheckInDate is the later one
triageBefore(a, b) ==
    \/ levelRank(a.level) < levelRank(b.level)
    \/ /\ levelRank(a.level) = levelRank(b.level)
       /\ DateRank(a.lastCheckInDate.v) > DateRank(b.lastCheckInDate.v)

\* Array.prototype.sort is stable: x goes before the first element that is
\* not before it
RECURSIVE InsertSorted(_, _)
InsertSorted(s, x) ==
    IF s = <<>> THEN <<x>>
    ELSE IF triageBefore(Head(s), x)
         THEN <<Head(s)>> \o InsertSorted(Tail(s), x)
         ELSE <<x>> \o s

RECURSIVE triageSort(_)
triageSort(s) == IF s = <<>> THEN <<>> ELSE InsertSorted(triageSort(Tail(s)), Head(s))

\* insights.ts line 53
alertId(x) == x.patientId.v \o "-" \o x.level \o "-" \o x.lastCheckInDate.v

\* slice(0, limit) of the alert feed
AlertLimit == 6

\* insights.ts lines 39-62: the non-green rows in triage order, at most six
buildAlertFeed(items) ==
    LET kept == SelectSeq(triageSort(items), LAMBDA x : x.level # "green")
        shown == SubSeq(kept, 1, IF Len(kept) < AlertLimit THEN Len(kept) ELSE AlertLimit)
    IN  [k \in 1..Len(shown) |-> [id |-> alertId(shown[k]), level |-> shown[k].level,
                                  patientId |-> shown[k].patientId]]

AlertIds(alerts) == {alerts[k].id : k \in 1..Len(alerts)}

\* the order in which the patients' documents come out of the query
PatientOrder == <<"p2", "p1">>

\* part_002 lines 30-45: the rows of a snapshot of riskStates ordered by
\* lastCheckInDate, in triage order
snapshotRows(store) ==
    LET present == SelectSeq(PatientOrder,
                             LAMBDA p : store[p] # NoDoc
                                        /\ "lastCheckInDate" \in DOMAIN store[p])
    IN  triageSort([k \in 1..Len(present) |-> store[present[k]]])

\* slice(0, 4) of the toast stack
ToastLimit == 4

\* the component before its first render
NoDashboard ==
    [mounted |-> FALSE, items |-> <<>>, showToasts |-> FALSE, toasts |-> <<>>,
     unreadCounts |-> [red |-> 0, yellow |-> 0],
     unreadIdsRef |-> {}, alertSeenRef |-> {}, primedRef |-> FALSE,
     loaded |-> FALSE, toasted |-> <<>>, atMount |-> {}]

\* the number of unread alerts of a level
unreadOf(alerts, unread, level) ==
    Cardinality({k \in 1..Len(alerts) : alerts[k].id \in unread /\ alerts[k].level = level})

\* the alerts of a feed that are not in seen, each id once, in feed order
RECURSIVE unseenOf(_, _)
unseenOf(alerts, seen) ==
    IF alerts = <<>> THEN <<>>
    ELSE IF Head(alerts).id \in seen
         THEN unseenOf(Tail(alerts), seen)
         ELSE <<Head(alerts).id>> \o unseenOf(Tail(alerts), seen \cup {Head(alerts).id})

\* part_002 line 120
toastId(id) == "toast-" \o id

\* part_002 line 129: [...next, ...prev].slice(0, 4)
pushToasts(next, prev) ==
    LET all == [k \in 1..Len(next) |-> toastId(next[k])] \o prev
    IN  SubSeq(all, 1, IF Len(all) < ToastLimit THEN Len(all) ELSE ToastLimit)

\* part_002 lines 80-131: the effect on [alerts, showToasts], run after a
\* render in which one of them changed
alertEffect(d) ==
    LET alerts == buildAlertFeed(d.items)
        current == AlertIds(alerts)
        stillUnread == d.unreadIdsRef \cap current
        unread == stillUnread \cup (current \ d.alertSeenRef)
        next == unseenOf(alerts, d.alertSeenRef)
    IN  IF ~d.primedRef
        THEN [d EXCEPT !.alertSeenRef = @ \cup current, !.primedRef = TRUE]
        ELSE IF ~d.showToasts
        THEN [d EXCEPT !.unreadIdsRef = unread,
                       !.unreadCounts = [red |-> unreadOf(alerts, unread, "red"),
                                         yellow |-> unreadOf(alerts, unread, "yellow")]]
        ELSE [d EXCEPT !.unreadIdsRef = {},
                       !.unreadCounts = IF stillUnread # {} THEN [red |-> 0, yellow |-> 0]
                                                           ELSE @,
                       !.alertSeenRef = @ \cup current,
                       !.toasts = IF next = <<>> THEN @ ELSE pushToasts(next, @),
                       !.toasted = @ \o next]

-----------------------------------------------------------------------------
(* Inputs of the model *)

MaxInv == 2

Quiet == [EmptyRaw EXCEPT !.confusion = Bool(FALSE), !.sleepReversal = Bool(FALSE),
                          !.tremor = Bool(FALSE), !.bleeding = Bool(FALSE),
                          !.fever = Bool(FALSE), !.bowelMovements = Num(3),
                          !.medsTaken = Obj([lactulose |-> Bool(TRUE),
                                             rifaximin |-> Bool(TRUE),
                                             diuretics |-> Bool(FALSE)])]

\* The records written to checkins/{checkinId}: complete check-ins of p1 on two
\* days with a weight gain of 2.0 kg, partial records (bleeding only; tremor
\* with one bowel movement), a record that names its patient in the legacy
\* field, and records without patient or without date.
RawRecords ==
    {[Quiet EXCEPT !.patientId = Str("p1"), !.date = Str(Dates[1]), !.weightKg = Num(780)],
     [Quiet EXCEPT !.patientId = Str("p1"), !.date = Str(Dates[2]), !.weightKg = Num(800)],
     [EmptyRaw EXCEPT !.patientId = Str("p1"), !.date = Str(Dates[2]),
                      !.bleeding = Bool(TRUE)],
     [EmptyRaw EXCEPT !.patientId = Str("p2"), !.date = Str(Dates[1]),
                      !.tremor = Bool(TRUE), !.bowelMovements = Num(1),
                      !.weightKg = Null],
     [Quiet EXCEPT !.patientID = Str("p1"), !.date = Str(Dates[2]),
                   !.weightKg = Num(800)],
     [Quiet EXCEPT !.date = Str(Dates[1])],
     [Quiet EXCEPT !.patientId = Str("p1")]}

-----------------------------------------------------------------------------
(* Actions *)

evalVars == <<evalCheckIn, evalHistory, evalResult>>

\* a create or update of checkins/{id} fires the trigger with the new snapshot
WriteCheckIn(id, rec) ==
    /\ Len(inv) < MaxInv
    /\ checkins[id] # rec
    /\ checkins' = [checkins EXCEPT ![id] = rec]
    /\ version' = version + 1
    /\ inv' = Append(inv, NewInvocation(version + 1, id, TRUE, rec))
    /\ UNCHANGED <<dash, riskStates, clock, writeLog, evalVars>>

\* a delete of checkins/{id} fires the trigger with change.after.exists = false
DeleteCheckIn(id) ==
    /\ Len(inv) < MaxInv
    /\ checkins[id] # NoDoc
    /\ checkins' = [checkins EXCEPT ![id] = NoDoc]
    /\ version' = version + 1
    /\ inv' = Append(inv, NewInvocation(version + 1, id, FALSE, EmptyRaw))
    /\ UNCHANGED <<dash, riskStates, clock, writeLog, evalVars>>

\* at-least-once delivery: the event of invocation i is delivered again
Redeliver(i) ==
    /\ Len(inv) < MaxInv
    /\ inv' = Append(inv, NewInvocation(inv[i].event, inv[i].doc, inv[i].exists, inv[i].data))
    /\ UNCHANGED <<dash, checkins, riskStates, clock, version, writeLog, evalVars>>

\* lines 106-132, up to the call of getRecentWeights
Start(i) ==
    /\ inv[i].pc = "start"
    /\ LET raw == inv[i].data
       IN  IF ~inv[i].exists \/ isSkipped(raw)
           THEN inv' = [inv EXCEPT ![i].pc = "skip"]
           ELSE inv' = [inv EXCEPT ![i].pc = "query",
                                   ![i].patientId = resolvePatientId(raw),
                                   ![i].date = raw.date,
                                   ![i].checkIn = normalize(raw),
                                   ![i].steps = <<"normalize">>]
    /\ UNCHANGED <<dash, checkins, riskStates, clock, version, writeLog, evalVars>>

\* the set calls issued so far, applied or still on their way to the store
Issued == {j \in 1..Len(inv) : inv[j].issueSeq > 0}

\* lines 134-137: the history query answers, the evaluator runs, the handler
\* issues the set call and awaits it
QueryHistory(i) ==
    /\ inv[i].pc = "query"
    /\ LET weightHistory == getRecentWeights(checkins, inv[i].patientId, inv[i].date)
           res == evaluateRisk(inv[i].checkIn, weightHistory)
       IN  inv' = [inv EXCEPT ![i].pc = "write",
                              ![i].weightHistory = weightHistory,
                              ![i].level = res.level,
                              ![i].reasons = res.reasons,
                              ![i].readVersion = version,
                              ![i].readClock = clock,
                              ![i].issueSeq = Cardinality(Issued) + 1,
                              ![i].steps = @ \o <<"query", "evaluate">>]
    /\ UNCHANGED <<dash, checkins, riskStates, clock, version, writeLog, evalVars>>

QueryFails_fabricatesEmpty(i) ==
    /\ inv[i].pc = "query"
    /\ LET res == evaluateRisk(inv[i].checkIn, <<>>)
       IN  inv' = [inv EXCEPT ![i].pc = "write",
                              ![i].readError = TRUE,
                              ![i].issueSeq = Cardinality(Issued) + 1,
                              ![i].level = res.level,
                              ![i].reasons = res.reasons,
                              ![i].steps = @ \o <<"query", "evaluate">>]
    /\ UNCHANGED <<dash, checkins, riskStates, clock, version, writeLog, evalVars>>

\* line 134: the awaited query rejects, the handler's promise rejects
QueryFails(i) ==
    /\ inv[i].pc = "query"
    /\ inv' = [inv EXCEPT ![i].pc = "failed", ![i].readError = TRUE]
    /\ UNCHANGED <<dash, checkins, riskStates, clock, version, writeLog, evalVars>>

\* lines 137-146: the payload of the set call
payload(patientId, level, reasons, date, now) ==
    [patientId |-> patientId, level |-> level, reasons |-> reasons,
     lastCheckInDate |-> date, updatedAt |-> now]

WriteRiskState_twice(i) ==
    /\ inv[i].pc = "write"
    /\ LET p == inv[i].patientId.v
           data == payload(inv[i].patientId, inv[i].level, inv[i].reasons,
                           inv[i].date, clock + 1)
           entry == [by |-> i, data |-> data, before |-> riskStates[p],
                     after |-> SetMerge(riskStates[p], data)]
       IN  /\ riskStates' = [riskStates EXCEPT ![p] = SetMerge(@, data)]
           /\ writeLog' = [writeLog EXCEPT ![p] = @ \o <<entry, entry>>]
    /\ clock' = clock + 1
    /\ inv' = [inv EXCEPT ![i].pc = "success", ![i].doneVersion = version,
                           ![i].steps = @ \o <<"write", "write">>]
    /\ UNCHANGED <<dash, checkins, version, evalVars>>

\* lines 137-146: the store applies the merge and the handler returns
WriteRiskState(i) ==
    /\ inv[i].pc = "write"
    /\ LET p == inv[i].patientId.v
           data == payload(inv[i].patientId, inv[i].level, inv[i].reasons,
                           inv[i].date, clock + 1)
       IN  /\ riskStates' = [riskStates EXCEPT ![p] = SetMerge(@, data)]
           /\ writeLog' = [writeLog EXCEPT ![p] =
                                Append(@, [by |-> i, data |-> data,
                                           before |-> riskStates[p],
                                           after |-> SetMerge(riskStates[p], data)])]
    /\ clock' = clock + 1
    /\ inv' = [inv EXCEPT ![i].pc = "success", ![i].doneVersion = version,
                           ![i].steps = Append(@, "write")]
    /\ UNCHANGED <<dash, checkins, version, evalVars>>

\* lines 137-146: the awaited set rejects, nothing is stored
WriteFails(i) ==
    /\ inv[i].pc = "write"
    /\ inv' = [inv EXCEPT ![i].pc = "failed", ![i].writeError = TRUE]
    /\ UNCHANGED <<dash, checkins, riskStates, clock, version, writeLog, evalVars>>

\* another writer's field on riskStates/{patientId}, not one the trigger sets
NoteDoc == [note |-> Str("call on Monday")]

Init ==
    /\ checkins = [id \in DocIds |-> NoDoc]
    /\ riskStates = [p \in Patients |-> IF p = "p1" THEN NoteDoc ELSE NoDoc]
    /\ inv = <<>>
    /\ clock = 0
    /\ version = 0
    /\ writeLog = [p \in Patients |-> <<>>]
    /\ evalCheckIn = normalize(Quiet)
    /\ evalHistory = <<>>
    /\ evalResult = NoResult
    /\ dash = NoDashboard

Next ==
    \/ \E id \in DocIds, rec \in RawRecords : WriteCheckIn(id, rec)
    \/ \E id \in DocIds : DeleteCheckIn(id)
    \/ \E i \in 1..Len(inv) : Redeliver(i)
    \/ \E i \in 1..Len(inv) : Start(i)
    \/ \E i \in 1..Len(inv) : QueryHistory(i)
    \/ \E i \in 1..Len(inv) : QueryFails(i)
    \/ \E i \in 1..Len(inv) : WriteRiskState(i)
    \/ \E i \in 1..Len(inv) : WriteFails(i)

Spec == Init /\ [][Next]_vars

-----------------------------------------------------------------------------
(* Direct calls of evaluateRisk *)

MaxBowel == 2

BowelValues == -1..MaxBowel

WeightValues == {775, 794, 795, 800}

\* the check-ins normalize can produce, for one date
NormalizedCheckIns ==
    [date : {Str(Dates[Len(Dates)])},
     confusion : {Bool(FALSE), Bool(TRUE)},
     sleepReversal : {Bool(FALSE), Bool(TRUE)},
     tremor : {Bool(FALSE), Bool(TRUE)},
     bowelMovements : {Num(b) : b \in BowelValues},
     weightKg : {Null, Num(800)},
     bleeding : {Bool(FALSE), Bool(TRUE)},
     fever : {Bool(FALSE), Bool(TRUE)},
     medsTaken : {Obj([lactulose |-> Bool(b), rifaximin |-> Bool(b), diuretics |-> Bool(b)]) :
                     b \in BOOLEAN}]

\* date of the i-th sample of a history, newest first
SampleDate(i) == Str(Dates[IF i >= Len(Dates) THEN 1 ELSE Len(Dates) + 1 - i])

\* the results getRecentWeights can return: 0..HistoryLimit samples by descending date
Histories ==
    UNION {{[i \in 1..n |-> [date |-> SampleDate(i), weightKg |-> Num(w[i])]] :
                w \in [1..n -> WeightValues]} : n \in 0..HistoryLimit}

InitEval ==
    /\ checkins = [id \in DocIds |-> NoDoc]
    /\ riskStates = [p \in Patients |-> NoDoc]
    /\ inv = <<>>
    /\ clock = 0
    /\ version = 0
    /\ writeLog = [p \in Patients |-> <<>>]
    /\ evalCheckIn \in NormalizedCheckIns
    /\ evalHistory \in Histories
    /\ evalResult = NoResult
    /\ dash = NoDashboard

Evaluate ==
    /\ evalResult = NoResult
    /\ evalResult' = evaluateRisk(evalCheckIn, evalHistory)
    /\ UNCHANGED <<dash, checkins, riskStates, inv, clock, version, writeLog,
                   evalCheckIn, evalHistory>>

NextEval == Evaluate

SpecEval == InitEval /\ [][NextEval]_vars

\* Direct calls of evaluateRisk on histories whose weights lie on both sides
\* of 64 kg, where the spacing of doubles changes
TrendWeights == {631, 651, 775, 790, 794, 795, 800}

\* check-ins without neuro flags and without fever
TrendCheckIns ==
    {c \in NormalizedCheckIns :
        ~c.confusion.v /\ ~c.sleepReversal.v /\ ~c.tremor.v /\ ~c.fever.v}

TrendHistories ==
    UNION {{[i \in 1..n |-> [date |-> SampleDate(i), weightKg |-> Num(w[i])]] :
                w \in [1..n -> TrendWeights]} : n \in 0..HistoryLimit}

InitTrend ==
    /\ checkins = [id \in DocIds |-> NoDoc]
    /\ riskStates = [p \in Patients |-> NoDoc]
    /\ inv = <<>>
    /\ clock = 0
    /\ version = 0
    /\ writeLog = [p \in Patients |-> <<>>]
    /\ evalCheckIn \in TrendCheckIns
    /\ evalHistory \in TrendHistories
    /\ evalResult = NoResult
    /\ dash = NoDashboard

NextTrend == Evaluate

SpecTrend == InitTrend /\ [][NextTrend]_vars

\* The trigger on a collection of more check-ins than the query's limit:
\* checkins/{k} is dated on the k-th day and is absent, or a quiet check-in of
\* p1 without weight, of p1 with 77.5 kg or 80 kg, or of p2 with 80 kg
MaxQueryDocs == 5

QueryDate(k) == Str(Dates[IF k > Len(Dates) THEN Len(Dates) ELSE k])

QueryDoc(k, o) ==
    CASE o = 0 -> NoDoc
      [] o = 1 -> [Quiet EXCEPT !.patientId = Str("p1"), !.date = QueryDate(k),
                                !.weightKg = Null]
      [] o = 2 -> [Quiet EXCEPT !.patientId = Str("p1"), !.date = QueryDate(k),
                                !.weightKg = Num(775)]
      [] o = 3 -> [Quiet EXCEPT !.patientId = Str("p1"), !.date = QueryDate(k),
                                !.weightKg = Num(800)]
      [] OTHER -> [Quiet EXCEPT !.patientId = Str("p2"), !.date = QueryDate(k),
                                !.weightKg = Num(800)]

QueryCollections ==
    {[k \in 1..MaxQueryDocs |-> QueryDoc(k, c[k])] : c \in [1..MaxQueryDocs -> 0..4]}

\* one of the stored check-ins has just been written and its event delivered
InitQuery ==
    /\ checkins \in QueryCollections
    /\ \E d \in 1..MaxQueryDocs :
          /\ checkins[d] # NoDoc
          /\ inv = <<NewInvocation(1, d, TRUE, checkins[d])>>
    /\ riskStates = [p \in Patients |-> NoDoc]
    /\ clock = 0
    /\ version = 1
    /\ writeLog = [p \in Patients |-> <<>>]
    /\ evalCheckIn = normalize(Quiet)
    /\ evalHistory = <<>>
    /\ evalResult = NoResult
    /\ dash = NoDashboard

NextQuery ==
    \/ Start(1)
    \/ QueryHistory(1)
    \/ WriteRiskState(1)

SpecQuery == InitQuery /\ [][NextQuery]_vars

\* The trigger on one untyped record: what a writer of checkins/{checkinId}
\* can store in each field, well typed or not
IdValues == {Undefined, Null, Str(""), Str("p1")}

LegacyIdValues == {Undefined, Str("p1"), Str("p2")}

DateValues == {Undefined, Str(""), Str(Dates[1])}

FlagValues == {Undefined, Null, Bool(FALSE), Bool(TRUE), Str("yes"), Num(0)}

OtherFlagValues == {Undefined, Bool(TRUE), Str("")}

RawBowelValues == {Undefined, Null, Str("2"), Num(-1), Num(0), Num(1)}

RawWeightValues == {Undefined, Null, Str("80"), Num(0), Num(-50), Num(800)}

MedsValues ==
    {Undefined, Null,
     Obj([lactulose |-> Undefined, rifaximin |-> Undefined, diuretics |-> Undefined]),
     Obj([lactulose |-> Bool(TRUE), rifaximin |-> Str("yes"), diuretics |-> Bool(FALSE)])}

UntypedRecords ==
    {[patientId |-> id, patientID |-> legacy, date |-> d,
      confusion |-> c, sleepReversal |-> o, tremor |-> o,
      bowelMovements |-> b, weightKg |-> w, bleeding |-> o, fever |-> o,
      medsTaken |-> m] :
        id \in IdValues, legacy \in LegacyIdValues, d \in DateValues,
        c \in FlagValues, o \in OtherFlagValues, b \in RawBowelValues,
        w \in RawWeightValues, m \in MedsValues}

InitNorm ==
    /\ \E raw \in UntypedRecords :
          /\ checkins = [id \in DocIds |-> IF id = 1 THEN raw ELSE NoDoc]
          /\ inv = <<NewInvocation(1, 1, TRUE, raw)>>
    /\ riskStates = [p \in Patients |-> NoDoc]
    /\ clock = 0
    /\ version = 1
    /\ writeLog = [p \in Patients |-> <<>>]
    /\ evalCheckIn = normalize(Quiet)
    /\ evalHistory = <<>>
    /\ evalResult = NoResult
    /\ dash = NoDashboard

\* lines 117-132 applied to the check-in they produced
Renormalize ==
    /\ inv[1].pc \notin {"start", "skip"}
    /\ evalResult = NoResult
    /\ evalCheckIn' = normalize(inv[1].checkIn)
    /\ evalResult' = evaluateRisk(normalize(inv[1].checkIn), <<>>)
    /\ UNCHANGED <<dash, checkins, riskStates, inv, clock, version, writeLog, evalHistory>>

NextNorm ==
    \/ Start(1)
    \/ QueryHistory(1)
    \/ WriteRiskState(1)
    \/ Renormalize

SpecNorm == InitNorm /\ [][NextNorm]_vars

\* The dashboard on the riskStates collection.  The RiskStates it can find:
\* none, or the payload of a trigger run with a level and one of two dates
MaxStoreWrites == 2

DashReasons(level) ==
    IF level = "green" THEN <<"No concerning signals detected">>
    ELSE IF level = "yellow" THEN <<"Possible hepatic encephalopathy">>
    ELSE <<"Bleeding symptoms reported">>

DashDoc(p, level, d) ==
    IF level = "none" THEN NoDoc
    ELSE payload(Str(p), level, DashReasons(level), Str(Dates[d]), 0)

DashStores ==
    {[p \in Patients |-> DashDoc(p, c[p].level, c[p].date)] :
        c \in [Patients -> [level : RiskLevels \cup {"none"}, date : {1, 2}]]}

InitDash ==
    /\ checkins = [id \in DocIds |-> NoDoc]
    /\ riskStates \in DashStores
    /\ inv = <<>>
    /\ clock = 0
    /\ version = 0
    /\ writeLog = [p \in Patients |-> <<>>]
    /\ evalCheckIn = normalize(Quiet)
    /\ evalHistory = <<>>
    /\ evalResult = NoResult
    /\ dash = NoDashboard

dashFrame == <<checkins, inv, version, writeLog, evalCheckIn, evalHistory, evalResult>>

\* index.ts lines 137-146 as the dashboard sees them: a run of the trigger
\* for patient p merges its payload into riskStates/{p}
RiskStateWritten(p, level, d) ==
    /\ clock < MaxStoreWrites
    /\ riskStates' = [riskStates EXCEPT ![p] =
                          SetMerge(@, payload(Str(p), level, DashReasons(level),
                                              Str(Dates[d]), clock + 1))]
    /\ clock' = clock + 1
    /\ UNCHANGED <<dash, dashFrame>>

\* part_002 lines 24-78 and the first run of the effects: items is still
\* empty, the listener is registered and has not answered
Mount ==
    /\ ~dash.mounted
    /\ dash' = alertEffect([dash EXCEPT !.mounted = TRUE,
                                        !.atMount = AlertIds(buildAlertFeed(
                                                        snapshotRows(riskStates)))])
    /\ UNCHANGED <<riskStates, clock, dashFrame>>

\* part_002 lines 34-46: the listener delivers the collection, setItems
\* re-renders, alerts is rebuilt and the effect runs
Snapshot ==
    /\ dash.mounted
    /\ snapshotRows(riskStates) # dash.items \/ ~dash.loaded
    /\ dash' = alertEffect([dash EXCEPT !.items = snapshotRows(riskStates),
                                        !.loaded = TRUE])
    /\ UNCHANGED <<riskStates, clock, dashFrame>>

\* part_002 line 411: the Show alerts / Hide alerts button, then the effect
ToggleAlerts ==
    /\ dash.mounted
    /\ dash' = alertEffect([dash EXCEPT !.showToasts = ~@])
    /\ UNCHANGED <<riskStates, clock, dashFrame>>

\* part_002 lines 133-135
dismissToast(id) ==
    /\ dash.mounted
    /\ \E k \in 1..Len(dash.toasts) : dash.toasts[k] = id
    /\ dash' = [dash EXCEPT !.toasts = SelectSeq(@, LAMBDA t : t # id)]
    /\ UNCHANGED <<riskStates, clock, dashFrame>>

NextDash ==
    \/ \E p \in Patients, level \in RiskLevels, d \in {1, 2} : RiskStateWritten(p, level, d)
    \/ Mount
    \/ Snapshot
    \/ ToggleAlerts
    \/ \E k \in 1..Len(dash.toasts) : dismissToast(dash.toasts[k])

SpecDash == InitDash /\ [][NextDash]_vars

-----------------------------------------------------------------------------
(* Properties of the evaluator *)

Sentinel == "No concerning signals detected"

Evaluated == evalResult # NoResult

\* C1: for every normalized check-in and every weight history of length 0..4,
\* evaluateRisk returns a level among green, yellow, red and at least one reason.
C1_Total ==
    Evaluated => /\ evalResult.level \in RiskLevels
                 /\ Len(evalResult.reasons) >= 1

\* a call in which no rule fired, on a full history of four samples
C1_Witness ==
    /\ Evaluated
    /\ Len(evalHistory) = HistoryLimit
    /\ evalResult.reasons = <<Sentinel>>
    /\ evalResult.level = "green"

\* the levels implied by the rules that fire on the arguments of the call
FiredLevels ==
    LET c == evalCheckIn
        n == Len(evalHistory)
    IN  (IF c.bleeding.v THEN {"red"} ELSE {})
        \cup (IF c.fever.v THEN {"red"} ELSE {})
        \cup (IF c.confusion.v /\ c.bowelMovements.v = 0 THEN {"red"} ELSE {})
        \cup (IF (c.confusion.v \/ c.sleepReversal.v \/ c.tremor.v) /\ c.bowelMovements.v < 2
              THEN {"yellow"} ELSE {})
        \cup (IF n >= 2 /\ evalHistory[1].weightKg.v - evalHistory[n].weightKg.v >= 20
              THEN {"yellow"} ELSE {})

\* C2: the returned level is the maximum over green < yellow < red of the levels
\* of the rules that fired: never below any of them, and green when none fired.
C2_LevelIsMax ==
    Evaluated =>
        /\ \A l \in FiredLevels : rank[evalResult.level] >= rank[l]
        /\ evalResult.level \in FiredLevels \cup {"green"}
        /\ FiredLevels = {} => evalResult.level = "green"
        /\ FiredLevels # {} => evalResult.level \in FiredLevels

\* a red rule fired before a yellow one and the level stayed red
C2_Witness ==
    /\ Evaluated
    /\ evalCheckIn.bleeding.v
    /\ evalCheckIn.tremor.v /\ evalCheckIn.bowelMovements.v = 1
    /\ Len(evalHistory) >= 2
    /\ evalHistory[1].weightKg.v - evalHistory[Len(evalHistory)].weightKg.v = 20
    /\ evalResult.level = "red"

SevereReason == "Severe HE concern: confusion + 0 bowel movements"

PossibleHEReason == "Possible hepatic encephalopathy"

FixedReasons ==
    {"Bleeding symptoms reported", "Fever reported", SevereReason, PossibleHEReason, Sentinel}

Has(reasons, r) == \E k \in 1..Len(reasons) : reasons[k] = r

\* the volume-overload reason is the only one whose text is not fixed
HasOverload(reasons) == \E k \in 1..Len(reasons) : reasons[k] \notin FixedReasons

\* the level the four symptom rules give to the check-in of the call
SymptomLevel ==
    LET c == evalCheckIn
    IN  IF c.bleeding.v \/ c.fever.v \/ (c.confusion.v /\ c.bowelMovements.v = 0)
        THEN "red"
        ELSE IF (c.confusion.v \/ c.sleepReversal.v \/ c.tremor.v) /\ c.bowelMovements.v < 2
             THEN "yellow"
             ELSE "green"

\* C11: with 0 or 1 weight samples the volume-overload reason never appears
\* and the level is the one the symptom rules alone give, whatever the weights.
C11_NoTrendBelowTwoSamples ==
    (Evaluated /\ Len(evalHistory) < 2) =>
        /\ ~HasOverload(evalResult.reasons)
        /\ evalResult.level = SymptomLevel

\* a call with one sample, the heaviest weight drawn and no symptom: green
C11_Witness ==
    /\ Evaluated
    /\ Len(evalHistory) = 1
    /\ evalHistory[1].weightKg.v = 800
    /\ evalResult = [level |-> "green", reasons |-> <<Sentinel>>]

\* C12: the possible-hepatic-encephalopathy rule fires exactly when a neuro
\* flag (confusion, sleepReversal, tremor) is set and bowelMovements < 2: with
\* a neuro flag it fires at bowelMovements 1 and does not at bowelMovements 2.
C12_PossibleHEThreshold ==
    Evaluated =>
        LET c == evalCheckIn
            neuro == c.confusion.v \/ c.sleepReversal.v \/ c.tremor.v
        IN  /\ Has(evalResult.reasons, PossibleHEReason) <=> (neuro /\ c.bowelMovements.v < 2)
            /\ (neuro /\ c.bowelMovements.v = 1) =>
                    /\ Has(evalResult.reasons, PossibleHEReason)
                    /\ rank[evalResult.level] >= rank["yellow"]
            /\ (neuro /\ c.bowelMovements.v = 2) => ~Has(evalResult.reasons, PossibleHEReason)

\* tremor alone with one bowel movement: the rule fires and the level is yellow
C12_Witness ==
    /\ Evaluated
    /\ evalCheckIn.tremor.v /\ ~evalCheckIn.confusion.v /\ ~evalCheckIn.sleepReversal.v
    /\ evalCheckIn.bowelMovements.v = 1
    /\ Len(evalHistory) = 0
    /\ evalResult = [level |-> "yellow", reasons |-> <<PossibleHEReason>>]

\* C13: with at least 2 weight samples (in tenths of a kilogram) the
\* volume-overload rule fires exactly when newest minus oldest is >= 2.0 kg:
\* a gain of exactly 2.0 fires it and a gain of 1.9 does not.
C13_InclusiveThreshold ==
    (Evaluated /\ Len(evalHistory) >= 2) =>
        (HasOverload(evalResult.reasons)
            <=> evalHistory[1].weightKg.v - evalHistory[Len(evalHistory)].weightKg.v >= 20)

\* C14: the delta of the weight rule is history[first] - history[last] over the
\* whole window, not a difference of consecutive samples: the reason carries
\* that delta, and a quiet check-in with history 80, 79, 77.5 kg gets level
\* yellow with the volume-overload reason for +2.5 kg.
C14_DeltaOverWindow ==
    (Evaluated /\ Len(evalHistory) >= 2) =>
        LET d == evalHistory[1].weightKg.v - evalHistory[Len(evalHistory)].weightKg.v
            w == [i \in 1..Len(evalHistory) |-> evalHistory[i].weightKg.v]
        IN  /\ d > 20 => /\ Has(evalResult.reasons,
                                 "Possible volume overload: +" \o toFixed1(d) \o " kg")
                         /\ rank[evalResult.level] >= rank["yellow"]
            /\ d < 20 => ~HasOverload(evalResult.reasons)
            /\ (w = <<800, 790, 775>> /\ ~evalCheckIn.bleeding.v) =>
                    evalResult = [level |-> "yellow",
                                  reasons |-> <<"Possible volume overload: +2.5 kg">>]

\* the scenario: no two consecutive samples are 2.0 kg apart, the window is 2.5
C14_Witness ==
    /\ Evaluated
    /\ ~evalCheckIn.bleeding.v
    /\ Len(evalHistory) = 3
    /\ evalHistory[1].weightKg.v = 800
    /\ evalHistory[2].weightKg.v = 790
    /\ evalHistory[3].weightKg.v = 775
    /\ evalResult.level = "yellow"
    /\ Has(evalResult.reasons, "Possible volume overload: +2.5 kg")

\* C15: the sentinel reason is returned exactly when no rule fired: then
\* reasons is the one-element list holding it and level is green; in every
\* other case the sentinel is absent from reasons.
C15_SentinelIffNoRule ==
    Evaluated =>
        IF FiredLevels = {}
        THEN evalResult = [level |-> "green", reasons |-> <<Sentinel>>]
        ELSE ~Has(evalResult.reasons, Sentinel) /\ Len(evalResult.reasons) >= 1

\* the sentinel on an empty history, for a tremor with 2 bowel movements
C15_Witness ==
    /\ Evaluated
    /\ Len(evalHistory) = 0
    /\ evalCheckIn.bowelMovements.v = 2
    /\ evalCheckIn.tremor.v
    /\ evalResult.reasons = <<Sentinel>>

\* C16: for a check-in with confusion and 0 bowel movements the level is red
\* and the reasons hold the severe-HE reason followed by the
\* possible-hepatic-encephalopathy reason.
C16_SevereThenPossible ==
    (Evaluated /\ evalCheckIn.confusion.v /\ evalCheckIn.bowelMovements.v = 0) =>
        /\ evalResult.level = "red"
        /\ \E k \in 1..(Len(evalResult.reasons) - 1) :
               /\ evalResult.reasons[k] = SevereReason
               /\ evalResult.reasons[k + 1] = PossibleHEReason

\* confusion with 0 bowel movements and nothing else: exactly the two reasons
C16_Witness ==
    /\ Evaluated
    /\ evalCheckIn.confusion.v /\ evalCheckIn.bowelMovements.v = 0
    /\ ~evalCheckIn.bleeding.v /\ ~evalCheckIn.fever.v
    /\ Len(evalHistory) = 1
    /\ evalResult = [level |-> "red", reasons |-> <<SevereReason, PossibleHEReason>>]

\* the place of a reason in the order of the rules; the volume-overload
\* reason, whose text varies, is the fifth
RuleIndex(r) ==
    CASE r = "Bleeding symptoms reported" -> 1
      [] r = "Fever reported" -> 2
      [] r = SevereReason -> 3
      [] r = PossibleHEReason -> 4
      [] OTHER -> 5

\* C25: the reasons are the single sentinel, or reasons of the rules in the
\* order bleeding, fever, severe HE, possible HE, volume overload, each at
\* most once, whatever the severity of the rules.
C25_ReasonsInRuleOrder ==
    Evaluated =>
        \/ evalResult.reasons = <<Sentinel>>
        \/ /\ Len(evalResult.reasons) >= 1
           /\ ~Has(evalResult.reasons, Sentinel)
           /\ \A k \in 1..(Len(evalResult.reasons) - 1) :
                  RuleIndex(evalResult.reasons[k]) < RuleIndex(evalResult.reasons[k + 1])

\* all five rules fired: the yellow possible-HE reason follows the red ones
\* and precedes the volume-overload reason
C25_Witness ==
    /\ Evaluated
    /\ Len(evalResult.reasons) = 5
    /\ evalResult.reasons[1] = "Bleeding symptoms reported"
    /\ evalResult.reasons[2] = "Fever reported"
    /\ evalResult.reasons[3] = SevereReason
    /\ evalResult.reasons[4] = PossibleHEReason
    /\ HasOverload(<<evalResult.reasons[5]>>)
    /\ evalResult.level = "red"

\* the reasons of the four symptom rules, in their order
SymptomReasons(reasons) ==
    SelectSeq(reasons, LAMBDA r : r \in FixedReasons \ {Sentinel})

\* histories to compare with: none, and every history of one or two samples
ShortHistories ==
    UNION {{[i \in 1..n |-> [date |-> SampleDate(i), weightKg |-> Num(w[i])]] :
                w \in [1..n -> WeightValues]} : n \in 0..2}

\* C26: for a fixed check-in, evaluations with different weight histories
\* agree on the bleeding, fever, severe-HE and possible-HE reasons and on
\* whether the level is red; they differ at most in the volume-overload reason
\* (and the sentinel that stands for no reason), and in green against yellow.
C26_HistoryOnlyMovesOverload ==
    Evaluated =>
        \A h \in ShortHistories :
            LET other == evaluateRisk(evalCheckIn, h)
            IN  /\ SymptomReasons(other.reasons) = SymptomReasons(evalResult.reasons)
                /\ (other.level = "red") <=> (evalResult.level = "red")
                /\ other.level # evalResult.level =>
                       /\ {other.level, evalResult.level} = {"green", "yellow"}
                       /\ HasOverload(other.reasons) # HasOverload(evalResult.reasons)
                       /\ (evalResult.level = "yellow") <=> HasOverload(evalResult.reasons)

\* a bleeding check-in on a history with a 2.0 kg gain: red with the overload
\* reason, where the empty history gives red without it
C26_Witness ==
    /\ Evaluated
    /\ evalCheckIn.bleeding.v /\ ~evalCheckIn.fever.v /\ ~evalCheckIn.confusion.v
    /\ ~evalCheckIn.sleepReversal.v /\ ~evalCheckIn.tremor.v
    /\ Len(evalHistory) = 2
    /\ evalHistory[1].weightKg.v - evalHistory[2].weightKg.v = 20
    /\ evalResult.level = "red"
    /\ Len(evalResult.reasons) = 2
    /\ HasOverload(evalResult.reasons)
    /\ evaluateRisk(evalCheckIn, <<>>).reasons = <<"Bleeding symptoms reported">>

\* check-ins that agree with c on the six fields the rules read
SameSymptoms(c) ==
    {[c EXCEPT !.medsTaken = Obj([lactulose |-> Bool(l), rifaximin |-> Bool(~l),
                                  diuretics |-> Bool(l)]),
               !.weightKg = w, !.date = Str(Dates[d])] :
        l \in BOOLEAN, w \in {Null, Num(631)}, d \in {1, Len(Dates)}}

\* C29: two check-ins that agree on bleeding, fever, confusion, sleepReversal,
\* tremor and bowelMovements get the same level and reasons on the same weight
\* history, whatever their medsTaken flags, their own weightKg and their date.
C29_IgnoresMedsWeightDate ==
    Evaluated =>
        \A c \in SameSymptoms(evalCheckIn) : evaluateRisk(c, evalHistory) = evalResult

\* a possible-HE result for a check-in with lactulose taken and a weight,
\* which has variants without lactulose, without weight and of another date
C29_Witness ==
    /\ Evaluated
    /\ evalCheckIn.medsTaken.v.lactulose.v
    /\ evalCheckIn.weightKg = Num(800)
    /\ evalCheckIn.tremor.v /\ evalCheckIn.bowelMovements.v = 0
    /\ ~evalCheckIn.bleeding.v /\ ~evalCheckIn.fever.v /\ ~evalCheckIn.confusion.v
    /\ Len(evalHistory) = 4
    /\ evalResult.level = "yellow"
    /\ Has(evalResult.reasons, PossibleHEReason)
    /\ \E c \in SameSymptoms(evalCheckIn) :
          /\ ~c.medsTaken.v.lactulose.v /\ c.weightKg = Null /\ c.date # evalCheckIn.date

-----------------------------------------------------------------------------
(* Properties of the trigger *)

Invocations == 1..Len(inv)

Terminal == {"skip", "success", "failed"}

\* the fields a RiskState write sets
WrittenFields == {"patientId", "level", "reasons", "lastCheckInDate", "updatedAt"}

NonEmptyString(x) == x.t = "string" /\ x.v # ""

UsableId(raw) == NonEmptyString(raw.patientId) \/ NonEmptyString(raw.patientID)

UsableDate(raw) == NonEmptyString(raw.date)

\* the writes of riskStates that invocation i issued, over all patients
WritesBy(i) ==
    UNION {{<<p, k>> : k \in {n \in 1..Len(writeLog[p]) : writeLog[p][n].by = i}} :
              p \in Patients}

MustSkip(i) == ~inv[i].exists \/ ~UsableId(inv[i].data) \/ ~UsableDate(inv[i].data)

\* C3: an event for a deletion, or for a record without a usable patient
\* identifier or without a usable date, ends in Skip: no history read, no
\* evaluation, no RiskState write, and its step leaves every RiskState unchanged.
C3_SkipDoesNothing ==
    /\ [](\A i \in Invocations : MustSkip(i) =>
            /\ inv[i].pc \in {"start", "skip"}
            /\ inv[i].steps = <<>>
            /\ inv[i].level = "none"
            /\ WritesBy(i) = {})
    /\ [][\A i \in Invocations : MustSkip(i) /\ inv'[i] # inv[i] =>
            /\ inv'[i].pc = "skip"
            /\ riskStates' = riskStates]_vars

\* a deletion and a record without patient identifier have both been skipped
C3_Witness ==
    \E i, j \in Invocations :
        /\ inv[i].pc = "skip" /\ ~inv[i].exists
        /\ inv[j].pc = "skip" /\ inv[j].exists
        /\ ~UsableId(inv[j].data) /\ UsableDate(inv[j].data)

\* C4: an event whose history read or state write fails ends in Failure and has
\* left RiskState alone: a failed read is followed by no evaluation, and no
\* field of the payload is stored.
C4_FailureWritesNothing ==
    /\ [](\A i \in Invocations : (inv[i].readError \/ inv[i].writeError) =>
            /\ inv[i].pc = "failed"
            /\ WritesBy(i) = {}
            /\ inv[i].readError =>
                  /\ inv[i].steps = <<"normalize">>
                  /\ inv[i].level = "none" /\ inv[i].reasons = <<>>
            /\ inv[i].writeError => inv[i].steps = <<"normalize", "query", "evaluate">>)
    /\ [][\A i \in Invocations :
            (inv'[i].readError \/ inv'[i].writeError) /\ inv'[i] # inv[i] =>
                riskStates' = riskStates]_vars

\* one event of p1 failed in its read and another in its write, and
\* riskStates/p1 is still the record it was before them
C4_Witness ==
    \E i, j \in Invocations :
        /\ inv[i].pc = "failed" /\ inv[i].readError
        /\ inv[j].pc = "failed" /\ inv[j].writeError
        /\ inv[i].patientId = Str("p1") /\ inv[j].patientId = Str("p1")
        /\ riskStates["p1"] = NoteDoc

\* the successful invocations for patient p
Processed(p) ==
    {i \in Invocations : inv[i].pc = "success" /\ inv[i].patientId.v = p}

\* position of invocation i's write among the writes of riskStates/p
WritePos(p, i) == CHOOSE k \in 1..Len(writeLog[p]) : writeLog[p][k].by = i

\* the one processed most recently
LastProcessed(p) ==
    CHOOSE i \in Processed(p) : \A j \in Processed(p) : WritePos(p, j) <= WritePos(p, i)

\* C5: after any sequence of events for a patient, interleaved or not, the
\* RiskState holds the evaluation result of the event processed most recently.
C5_ReflectsLastProcessed ==
    \A p \in Patients : Processed(p) # {} =>
        LET i == LastProcessed(p)
            res == evaluateRisk(inv[i].checkIn, inv[i].weightHistory)
        IN  /\ riskStates[p].level = res.level
            /\ riskStates[p].reasons = res.reasons
            /\ riskStates[p].lastCheckInDate = inv[i].checkIn.date

\* two events of p1 were processed one after the other with different results
C5_Witness ==
    /\ Cardinality(Processed("p1")) = 2
    /\ \E i, j \in Processed("p1") :
        /\ WritePos("p1", i) < WritePos("p1", j)
        /\ inv[j].readClock >= writeLog["p1"][WritePos("p1", i)].data.updatedAt
        /\ inv[i].level # inv[j].level
        /\ riskStates["p1"].level = inv[j].level

\* the stored check-ins of patient p, by the identifier the trigger resolves
StoredOf(p) ==
    {id \in DocIds :
        /\ checkins[id] # NoDoc
        /\ ~isSkipped(checkins[id])
        /\ resolvePatientId(checkins[id]) = Str(p)}

\* a stored check-in of p with the greatest date
LatestOf(p) ==
    CHOOSE id \in StoredOf(p) : \A o \in StoredOf(p) :
        DateLeq(checkins[o].date.v, checkins[id].date.v)

\* every event ended in Success before the next check-in was written: no two
\* runs of the trigger overlapped, none failed, none was skipped
Serial ==
    /\ \A i \in Invocations : inv[i].pc = "success"
    /\ \A i, j \in Invocations : i < j => inv[i].doneVersion < inv[j].event

\* C6: once every event has completed, the RiskState of a patient carries the
\* greatest date among the patient's stored check-ins and the evaluation of
\* that latest check-in, in whatever order the check-ins were written.  Stated
\* for the runs in which the events were processed one at a time.
C6_ReflectsLatestDate ==
    Serial =>
        \A p \in Patients : StoredOf(p) # {} /\ Processed(p) # {} =>
            LET c == checkins[LatestOf(p)]
                res == evaluateRisk(normalize(c),
                                    getRecentWeights(checkins, Str(p), c.date))
            IN  /\ riskStates[p].lastCheckInDate = c.date
                /\ riskStates[p].level = res.level
                /\ riskStates[p].reasons = res.reasons

LastWrite(p) == writeLog[p][Len(writeLog[p])]

\* the successful invocation for p whose set call was issued last
LastIssued(p) ==
    CHOOSE i \in Processed(p) : \A j \in Processed(p) : inv[j].issueSeq <= inv[i].issueSeq

\* C7 as stated: when the events of a patient have all completed, the RiskState
\* is the payload of the set call that was issued last.
C7_LastIssuedWins ==
    \A p \in Patients :
        Processed(p) # {} /\ (\A i \in Invocations : inv[i].pc \in Terminal) =>
            LET i == LastIssued(p)
            IN  /\ riskStates[p].level = inv[i].level
                /\ riskStates[p].reasons = inv[i].reasons
                /\ riskStates[p].lastCheckInDate = inv[i].date

\* C7: the RiskState is the whole payload of the write the store applied last:
\* level, reasons and lastCheckInDate are those of the one invocation that
\* issued it, also when two events of the patient raced.
C7_LastWriterWinsWhole ==
    \A p \in Patients : writeLog[p] # <<>> =>
        LET w == LastWrite(p)
        IN  /\ riskStates[p].level = w.data.level
            /\ riskStates[p].reasons = w.data.reasons
            /\ riskStates[p].lastCheckInDate = w.data.lastCheckInDate
            /\ w.data.level = inv[w.by].level
            /\ w.data.reasons = inv[w.by].reasons
            /\ w.data.lastCheckInDate = inv[w.by].date
            /\ w.data.patientId = Str(p)

\* two events of p1 both read the history before either wrote, and the one
\* delivered first wrote last, over a write with another level, reasons and date
C7_Witness ==
    /\ Len(writeLog["p1"]) = 2
    /\ writeLog["p1"][1].by = 2 /\ writeLog["p1"][2].by = 1
    /\ inv[1].readClock = 0 /\ inv[2].readClock = 0
    /\ inv[1].level # inv[2].level
    /\ inv[1].reasons # inv[2].reasons
    /\ inv[1].date # inv[2].date
    /\ riskStates["p1"].level = inv[1].level

\* the parts of a stored RiskState that a repeated run must reproduce
Outcome(doc) ==
    [level |-> doc.level, reasons |-> doc.reasons, lastCheckInDate |-> doc.lastCheckInDate]

\* C8: two runs of the trigger for the same write event that read the same
\* stored check-ins leave the same level, reasons and lastCheckInDate in
\* RiskState; only updatedAt may differ.
C8_RedeliveryIdempotent ==
    \A p \in Patients : \A a, b \in 1..Len(writeLog[p]) :
        LET wa == writeLog[p][a]
            wb == writeLog[p][b]
        IN  inv[wa.by].event = inv[wb.by].event
              /\ inv[wa.by].readVersion = inv[wb.by].readVersion
            => /\ Outcome(wa.after) = Outcome(wb.after)
               /\ \A f \in DOMAIN wa.after \ {"updatedAt"} :
                     f \in DOMAIN wb.after /\ wa.after[f] = wb.after[f]

\* an event was delivered twice, both runs wrote, at different times
C8_Witness ==
    /\ Len(writeLog["p1"]) = 2
    /\ LastWrite("p1").by # writeLog["p1"][1].by
    /\ inv[1].event = inv[2].event
    /\ writeLog["p1"][1].after.updatedAt # LastWrite("p1").after.updatedAt
    /\ riskStates["p1"] = LastWrite("p1").after

\* C9: a RiskState write changes only patientId, level, reasons, lastCheckInDate
\* and updatedAt of the record of its patient; every other field of that record
\* keeps its value, and no other record changes.
C9_WriteFrame ==
    [][\A p \in Patients : riskStates'[p] # riskStates[p] =>
          /\ \E i \in Invocations :
                /\ inv[i].pc = "write" /\ inv'[i].pc = "success"
                /\ inv[i].patientId = Str(p)
          /\ DOMAIN riskStates'[p] = DOMAIN riskStates[p] \cup WrittenFields
          /\ \A f \in DOMAIN riskStates[p] \ WrittenFields :
                riskStates'[p][f] = riskStates[p][f]]_vars

\* riskStates/p1 has been written twice and still carries the note it had
C9_Witness ==
    /\ Len(writeLog["p1"]) = 2
    /\ "note" \in DOMAIN riskStates["p1"]
    /\ riskStates["p1"].note = NoteDoc.note
    /\ riskStates["p1"].level \in RiskLevels

\* C10: an event that ends in Success has normalized, queried the history,
\* evaluated and written, in this order, and has written RiskState exactly once.
C10_OneWriteLast ==
    \A i \in Invocations : inv[i].pc = "success" =>
        /\ inv[i].steps = <<"normalize", "query", "evaluate", "write">>
        /\ Cardinality(WritesBy(i)) = 1
        /\ \A w \in WritesBy(i) : w[1] = inv[i].patientId.v

\* two events have ended in Success, each with its one write
C10_Witness ==
    /\ Len(inv) = 2
    /\ \A i \in Invocations : inv[i].pc = "success" /\ Cardinality(WritesBy(i)) = 1

\* the check-ins of patient p alone: every other document taken away
OwnDocs(docs, p) ==
    [id \in DOMAIN docs |->
        IF docs[id] # NoDoc /\ docs[id].patientId = Str(p) THEN docs[id] ELSE NoDoc]

\* riskStates/{p} before any event
InitialRiskState(p) == IF p = "p1" THEN NoteDoc ELSE NoDoc

\* a document without its server timestamp
Untimed(doc) == [f \in DOMAIN doc \ {"updatedAt"} |-> doc[f]]

\* what the event of invocation i alone determines for its patient: the
\* evaluation of its record against a collection holding only that record
AloneState(i) ==
    LET raw == inv[i].data
        id == resolvePatientId(raw)
        only == [d \in DocIds |-> IF d = inv[i].doc THEN raw ELSE NoDoc]
        res == evaluateRisk(normalize(raw), getRecentWeights(only, id, raw.date))
    IN  Untimed(SetMerge(InitialRiskState(id.v),
                         payload(id, res.level, res.reasons, raw.date, 0)))

\* two events on different documents for different patients, both processed
TwoPatientsDone ==
    /\ Len(inv) = 2
    /\ \A i \in Invocations : inv[i].pc = "success"
    /\ inv[1].patientId # inv[2].patientId
    /\ inv[1].doc # inv[2].doc

\* C18: processing an event of patient p neither reads nor changes what
\* belongs to another patient q: the history query of a running event answers
\* as if the check-ins of the other patients were not there, riskStates/{q} changes only by the
\* writes of q's own events, each carrying q's own evaluation, and when two
\* events of different patients have been processed each patient's RiskState
\* (its server timestamp apart) is the one its own event determines, whatever
\* the interleaving was.
C18_NoCrossPatient ==
    /\ \A i \in Invocations : inv[i].pc = "query" =>
           getRecentWeights(checkins, inv[i].patientId, inv[i].date)
               = getRecentWeights(OwnDocs(checkins, inv[i].patientId.v),
                                  inv[i].patientId, inv[i].date)
    /\ \A p \in Patients :
           LET log == writeLog[p]
           IN  /\ riskStates[p] = IF Len(log) = 0 THEN InitialRiskState(p)
                                                  ELSE log[Len(log)].after
               /\ \A k \in 1..Len(log) :
                      /\ inv[log[k].by].patientId = Str(p)
                      /\ log[k].before = IF k = 1 THEN InitialRiskState(p)
                                                  ELSE log[k - 1].after
                      /\ Untimed(log[k].data)
                            = Untimed(payload(Str(p), inv[log[k].by].level,
                                              inv[log[k].by].reasons,
                                              inv[log[k].by].date, 0))
                      /\ \A f \in DOMAIN log[k].after :
                            log[k].after[f] = IF f \in WrittenFields THEN log[k].data[f]
                                                                     ELSE log[k].before[f]
    /\ TwoPatientsDone =>
           \A i \in Invocations : Untimed(riskStates[inv[i].patientId.v]) = AloneState(i)

\* the event of p1 came first and the write for p2 was applied first, while
\* both check-ins were stored
C18_Witness ==
    /\ TwoPatientsDone
    /\ inv[1].patientId = Str("p1") /\ inv[2].patientId = Str("p2")
    /\ inv[2].readVersion = 2 /\ inv[1].readVersion = 2
    /\ writeLog["p2"][1].data.updatedAt < writeLog["p1"][1].data.updatedAt
    /\ riskStates["p1"].level = "green" /\ riskStates["p2"].level = "yellow"

\* the history query of invocation i has answered
Queried(i) == inv[i].pc \in {"write", "success"} /\ ~inv[i].readError

\* the check-ins of the patient of invocation i dated on or before its date
\* that carry a numeric weight
WeightBearing(i) ==
    {id \in DOMAIN checkins :
        /\ checkins[id] # NoDoc
        /\ checkins[id].patientId = inv[i].patientId
        /\ DateLeq(checkins[id].date.v, inv[i].date.v)
        /\ TypeOf(checkins[id].weightKg) = "number"}

\* the up to four most recent of them, newest first
RecentWeightBearing(i) ==
    LET ids == OrderByDateDesc(checkins, WeightBearing(i))
        n == IF Len(ids) < HistoryLimit THEN Len(ids) ELSE HistoryLimit
    IN  [k \in 1..n |-> [date |-> checkins[ids[k]].date,
                         weightKg |-> checkins[ids[k]].weightKg]]

\* C19: the weight history the trigger uses is made of the up to four most
\* recent check-ins of the patient, dated on or before the reference date,
\* that carry a numeric weight: a check-in without weight takes no place.
C19_WindowOfWeightBearing ==
    \A i \in Invocations : Queried(i) => inv[i].weightHistory = RecentWeightBearing(i)

\* C20: the answer of the weight history query has at most 4 samples, each the
\* date and numeric weight of a check-in of the queried patient dated on or
\* before the reference date, in descending order of date.
C20_QueryResultShape ==
    \A i \in Invocations : Queried(i) =>
        LET h == inv[i].weightHistory
        IN  /\ Len(h) <= 4
            /\ \A k \in 1..Len(h) :
                   /\ TypeOf(h[k].weightKg) = "number"
                   /\ DateLeq(h[k].date.v, inv[i].date.v)
                   /\ \E id \in DOMAIN checkins :
                         /\ checkins[id] # NoDoc
                         /\ checkins[id].patientId = inv[i].patientId
                         /\ checkins[id].date = h[k].date
                         /\ checkins[id].weightKg = h[k].weightKg
            /\ \A k \in 1..(Len(h) - 1) : DateLeq(h[k + 1].date.v, h[k].date.v)

\* five weighed check-ins of p1 and the event of the fifth day: all five match
\* and the four newest are returned
C20_Witness ==
    /\ Queried(1)
    /\ inv[1].patientId = Str("p1")
    /\ inv[1].date = Str(Dates[5])
    /\ \A id \in 1..5 : /\ checkins[id] # NoDoc
                         /\ checkins[id].patientId = Str("p1")
                         /\ TypeOf(checkins[id].weightKg) = "number"
    /\ Len(inv[1].weightHistory) = 4
    /\ inv[1].weightHistory[1].date = Str(Dates[5])
    /\ inv[1].weightHistory[4].date = Str(Dates[2])

\* C28: for each patient the lastCheckInDate stored in RiskState never decreases
\* from one successful write to the next: an event for an earlier-dated
\* check-in does not replace a RiskState derived from a later-dated one.
C28_DateNeverDecreases ==
    \A p \in Patients : \A k \in 2..Len(writeLog[p]) :
        DateLeq(writeLog[p][k - 1].after.lastCheckInDate.v,
                writeLog[p][k].after.lastCheckInDate.v)

-----------------------------------------------------------------------------
(* Properties of the normalization *)

\* invocation i has passed the checks of lines 106-114
Normalized(i) == inv[i].pc \notin {"start", "skip"}

\* C21: the patient identifier is the primary field patientId when it carries
\* an identity, also when the legacy field differs, and the legacy field
\* patientID otherwise; a record with a usable date is skipped only when
\* neither field supplies a usable identifier.
C21_ResolvesIdentity ==
    \A i \in Invocations : (inv[i].exists /\ inv[i].pc # "start") =>
        LET raw == inv[i].data
        IN  /\ (NonEmptyString(raw.patientId) /\ UsableDate(raw)) =>
                   Normalized(i) /\ inv[i].patientId = raw.patientId
            /\ (~NonEmptyString(raw.patientId) /\ NonEmptyString(raw.patientID)
                   /\ UsableDate(raw)) =>
                   Normalized(i) /\ inv[i].patientId = raw.patientID
            /\ (inv[i].pc = "skip" /\ UsableDate(raw)) => ~UsableId(raw)

\* C22: in every normalized check-in bowelMovements is a non-negative count,
\* 0 when the raw value is absent or not a number, and weightKg is null or a
\* positive number, whatever the raw record holds.
C22_NumericDomains ==
    \A i \in Invocations : Normalized(i) =>
        LET c == inv[i].checkIn
            raw == inv[i].data
        IN  /\ c.bowelMovements.t = "number" /\ c.bowelMovements.v >= 0
            /\ raw.bowelMovements.t # "number" => c.bowelMovements = Num(0)
            /\ c.weightKg = Null \/ (c.weightKg.t = "number" /\ c.weightKg.v > 0)
            /\ raw.weightKg.t # "number" => c.weightKg = Null

FlagFields == {"confusion", "sleepReversal", "tremor", "bleeding", "fever"}

MedFields == {"lactulose", "rifaximin", "diuretics"}

\* C23: a normalized check-in has a concrete value in every field: the five
\* symptom flags and the three medsTaken flags are booleans, false when the
\* raw record lacks them, bowelMovements is a number, weightKg is a number or
\* null, and no field is undefined.
C23_NoUndefinedField ==
    \A i \in Invocations : Normalized(i) =>
        LET c == inv[i].checkIn
            raw == inv[i].data
        IN  /\ \A f \in DOMAIN c : c[f].t # "undefined"
            /\ \A f \in FlagFields :
                   /\ c[f].t = "boolean"
                   /\ Nullish(raw[f]) => c[f] = Bool(FALSE)
            /\ c.medsTaken.t = "object"
            /\ DOMAIN c.medsTaken.v = MedFields
            /\ \A f \in MedFields :
                   /\ c.medsTaken.v[f].t = "boolean"
                   /\ (Nullish(raw.medsTaken) \/ Nullish(raw.medsTaken.v[f]))
                         => c.medsTaken.v[f] = Bool(FALSE)
            /\ c.bowelMovements.t = "number"
            /\ c.weightKg.t \in {"number", "null"}
            /\ c.date = raw.date

\* a record that has only an identifier and a date: every default is taken
C23_Witness ==
    /\ Normalized(1)
    /\ \A f \in FlagFields \cup {"bowelMovements", "weightKg", "medsTaken"} :
           inv[1].data[f] = Undefined
    /\ \A f \in FlagFields : inv[1].checkIn[f] = Bool(FALSE)
    /\ inv[1].checkIn.bowelMovements = Num(0)
    /\ inv[1].checkIn.weightKg = Null
    /\ \A f \in MedFields : inv[1].checkIn.medsTaken.v[f] = Bool(FALSE)

\* the check-in of invocation 1 has been normalized a second time
Renormalized == Normalized(1) /\ evalResult # NoResult

\* C24: normalizing a normalized check-in gives that same check-in back, with
\* no field dropped or changed, for every raw record that is not skipped.
C24_NormalizeIdempotent ==
    Renormalized =>
        /\ DOMAIN evalCheckIn = DOMAIN inv[1].checkIn
        /\ \A f \in DOMAIN evalCheckIn : evalCheckIn[f] = inv[1].checkIn[f]

\* a record with ill-typed fields, which the first normalization changed
C24_Witness ==
    /\ Renormalized
    /\ inv[1].data.confusion = Str("yes") /\ inv[1].checkIn.confusion = Bool(TRUE)
    /\ inv[1].data.weightKg = Str("80") /\ inv[1].checkIn.weightKg = Null
    /\ inv[1].data.bowelMovements = Str("2") /\ inv[1].checkIn.bowelMovements = Num(0)
    /\ inv[1].data.medsTaken = Null
    /\ evalCheckIn = inv[1].checkIn

\* C27: for every successfully processed event whose check-in carries a
\* numeric weightKg, the weight history given to the evaluator holds that
\* check-in's own sample, whichever field names its patient.
C27_OwnSampleInHistory ==
    \A i \in Invocations :
        (inv[i].pc = "success" /\ TypeOf(inv[i].checkIn.weightKg) = "number") =>
            \E k \in 1..Len(inv[i].weightHistory) :
                inv[i].weightHistory[k]
                    = [date |-> inv[i].date, weightKg |-> inv[i].checkIn.weightKg]

-----------------------------------------------------------------------------
(* Properties of the dashboard *)

\* the number of toasts produced so far for alert id
ToastsFor(id) == Cardinality({k \in 1..Len(dash.toasted) : dash.toasted[k] = id})

\* every alert id has produced at most one toast
AtMostOneToast == \A k \in 1..Len(dash.toasted) : ToastsFor(dash.toasted[k]) <= 1

====
